---- MODULE Spec2Model ----
(***************************************************************************)
(* Model of the ga4gh-cli TES command dispatcher (src/cli/src/main.rs):    *)
(* the state-label mapping, the task/list formatters, the list-parameter   *)
(* construction and the five `tes` subcommand branches of main.            *)
(*                                                                         *)
(* Rust strings are TLA+ strings (Len, \o and SubSeq act on them           *)
(* character by character).  Option<T> is a sequence of length at most 1:  *)
(* None is <<>> and Some(v) is <<v>>.                                      *)
(***************************************************************************)
EXTENDS Integers, Sequences, FiniteSets, TLC

VARIABLES
    \* ---- one invocation of main ----
    cmd,         \* the `tes` subcommand clap matched
    args,        \* the command-line values of that subcommand (and the file system for create)
    pc,          \* position of main
    task_json,   \* create: the document text handed to serde_json::from_str
    testask,     \* create: Option of the parsed TesTask
    parameters,  \* list: Option of the ListTasksParams value built
    funnel_url,  \* Option of the string ensure_funnel_running returned
    tes_new,     \* "none" | "Ok" | "Err" | "Transport": how the client handle was obtained
    events,      \* the collaborator calls issued so far, in order
    result,      \* Option of what the backend call returned
    stdout,      \* lines written with println!
    stderr,      \* lines written with eprintln! / error! / the panic message
    outcome,     \* "none" | "ok" (main returned Ok(())) | "err" (returned Err) | "panic"
    \* ---- the pure functions applied on their own ----
    fin,         \* the input drawn for a pure function
    fpc,         \* "ready" | "done"
    fout         \* what the function returned

mainVars == <<cmd, args, pc, task_json, testask, parameters, funnel_url, tes_new,
              events, result, stdout, stderr, outcome>>
fmtVars == <<fin, fpc, fout>>
vars == <<cmd, args, pc, task_json, testask, parameters, funnel_url, tes_new,
          events, result, stdout, stderr, outcome, fin, fpc, fout>>

None == <<>>
Some(v) == <<v>>
unwrap_or(opt, default) == IF opt = None THEN default ELSE opt[1]

-----------------------------------------------------------------------------
(* Bounds *)

\* longest task identifier drawn for format_task
MaxIdLen == 40
\* longest task list drawn for format_tasks_response and returned by list_tasks
MaxTasks == 3

-----------------------------------------------------------------------------
(* Task State Model: tes_state_to_str *)

\* the variants of TesState, by their Rust identifiers
TesStates ==
    {"Unknown", "Queued", "Initializing", "Running", "Paused", "Complete",
     "ExecutorError", "SystemError", "Canceled", "Canceling", "Preempted"}

OptStates == {None} \cup {Some(s) : s \in TesStates}

tes_state_to_str_merged(state) ==
    CASE state = Some("Unknown")       -> "Unknown"
      [] state = Some("Queued")        -> "Queued"
      [] state = Some("Initializing")  -> "Initializing"
      [] state = Some("Running")       -> "Running"
      [] state = Some("Paused")        -> "Paused"
      [] state = Some("Complete")      -> "Complete"
      [] state = Some("ExecutorError") -> "Executor Error"
      [] state = Some("SystemError")   -> "System Error"
      [] state = Some("Canceled")      -> "Canceled"
      [] state = Some("Canceling")     -> "Canceled"
      [] state = Some("Preempted")     -> "Preempted"
      [] state = None                  -> "None"

\* the match of tes_state_to_str, arm by arm; no arm is a default
tes_state_to_str(state) ==
    CASE state = Some("Unknown")       -> "Unknown"
      [] state = Some("Queued")        -> "Queued"
      [] state = Some("Initializing")  -> "Initializing"
      [] state = Some("Running")       -> "Running"
      [] state = Some("Paused")        -> "Paused"
      [] state = Some("Complete")      -> "Complete"
      [] state = Some("ExecutorError") -> "Executor Error"
      [] state = Some("SystemError")   -> "System Error"
      [] state = Some("Canceled")      -> "Canceled"
      [] state = Some("Canceling")     -> "Canceling"
      [] state = Some("Preempted")     -> "Preempted"
      [] state = None                  -> "None"

-----------------------------------------------------------------------------
(* Response Formatter: format_task, format_tasks_response *)

\* the widths of "{:<25} {:<15}\n"
IdWidth == 25
StateWidth == 15

RECURSIVE Spaces(_)
Spaces(n) == IF n <= 0 THEN "" ELSE " " \o Spaces(n - 1)

RECURSIVE Rep(_, _)
Rep(c, n) == IF n <= 0 THEN "" ELSE c \o Rep(c, n - 1)

\* "{:<w}": left-justify s in a field of at least w characters; a width is a
\* minimum, so a longer s is written whole
LeftJustify(s, w) == IF Len(s) >= w THEN s ELSE s \o Spaces(w - Len(s))

\* "{:<25.25}": a precision would cut the identifier at the field width
format_task_truncating(task) ==
    LET id == unwrap_or(task.id, "None")
        cut == IF Len(id) > IdWidth THEN SubSeq(id, 1, IdWidth) ELSE id
    IN  LeftJustify(cut, IdWidth) \o " "
        \o LeftJustify(tes_state_to_str(task.state), StateWidth) \o "\n"

format_task(task) ==
    LeftJustify(unwrap_or(task.id, "None"), IdWidth) \o " "
        \o LeftJustify(tes_state_to_str(task.state), StateWidth) \o "\n"

\* the loop `for task in &response.tasks { table.push_str(&format_task(task)) }`
RECURSIVE PushRows(_, _, _)
PushRows(table, tasks, i) ==
    IF i > Len(tasks) THEN table
    ELSE PushRows(table \o format_task(tasks[i]), tasks, i + 1)

\* a loop that stops one task short
format_tasks_response_short(response) ==
    PushRows(LeftJustify("TASK ID", IdWidth) \o " " \o LeftJustify("State", StateWidth) \o "\n",
             SubSeq(response.tasks, 1, Len(response.tasks) - 1), 1)

format_tasks_response(response) ==
    LET headers == LeftJustify("TASK ID", IdWidth) \o " "
                       \o LeftJustify("State", StateWidth) \o "\n"
    IN  PushRows("" \o headers, response.tasks, 1)

-----------------------------------------------------------------------------
(* Inputs of the pure functions *)

\* identifiers of every length 0..MaxIdLen, and the absent identifier
FormatIds ==
    {None} \cup {Some(Rep(c, n)) : c \in {"a", "Z"}, n \in 0..MaxIdLen}

FormatTasks == [id : FormatIds, state : OptStates]

\* the tasks a list response is made of: absent/short/over-wide identifiers,
\* absent/one-word/two-word state labels
ListIds == {None, Some("t1"), Some("cqgk5lj93m0311u6p530"), Some(Rep("x", IdWidth + 1))}
ListTaskStates == {None, Some("Running"), Some("ExecutorError")}
ListTasks == [id : ListIds, state : ListTaskStates]

SeqsUpTo(S, n) == UNION {[1..k -> S] : k \in 0..n}

\* TesListTasksResponse values (the tasks field is the one the formatter reads)
Responses == {[tasks |-> ts] : ts \in SeqsUpTo(ListTasks, MaxTasks)}

NoTask == [id |-> None, state |-> None]

FormatInputs ==
    {[kind |-> "state", s1 |-> a, s2 |-> b, task |-> NoTask, tasks |-> <<>>] :
        a \in OptStates, b \in OptStates}
    \cup {[kind |-> "task", s1 |-> None, s2 |-> None, task |-> t, tasks |-> <<>>] :
        t \in FormatTasks}
    \cup {[kind |-> "list", s1 |-> None, s2 |-> None, task |-> NoTask, tasks |-> r.tasks] :
        r \in Responses}

-----------------------------------------------------------------------------
(* Results and the parsers main calls *)

\* Result<T, E>: ok says which variant; v holds the Ok value, e the error
Ok(v) == [ok |-> TRUE, v |-> <<v>>, e |-> ""]
Err(e) == [ok |-> FALSE, v |-> <<>>, e |-> e]
unwrap(r) == r.v[1]

Char(s, i) == SubSeq(s, i, i)

\* the JSON names of the TesState variants (TES wire format)
WireName(state) ==
    CASE state = "Unknown"       -> "UNKNOWN"
      [] state = "Queued"        -> "QUEUED"
      [] state = "Initializing"  -> "INITIALIZING"
      [] state = "Running"       -> "RUNNING"
      [] state = "Paused"        -> "PAUSED"
      [] state = "Complete"      -> "COMPLETE"
      [] state = "ExecutorError" -> "EXECUTOR_ERROR"
      [] state = "SystemError"   -> "SYSTEM_ERROR"
      [] state = "Canceled"      -> "CANCELED"
      [] state = "Canceling"     -> "CANCELING"
      [] state = "Preempted"     -> "PREEMPTED"

\* serde_json::from_str::<TesState>(s): s must be a JSON string literal, quotes
\* included, holding a wire name
from_str_TesState(s) ==
    IF /\ Len(s) >= 2
       /\ Char(s, 1) = "\""
       /\ Char(s, Len(s)) = "\""
       /\ \E st \in TesStates : WireName(st) = SubSeq(s, 2, Len(s) - 1)
    THEN Ok(CHOOSE st \in TesStates : WireName(st) = SubSeq(s, 2, Len(s) - 1))
    ELSE Err("expected a TesState")

Digits == {"0", "1", "2", "3", "4", "5", "6", "7", "8", "9"}

DigitValue(c) ==
    CASE c = "0" -> 0 [] c = "1" -> 1 [] c = "2" -> 2 [] c = "3" -> 3 [] c = "4" -> 4
      [] c = "5" -> 5 [] c = "6" -> 6 [] c = "7" -> 7 [] c = "8" -> 8 [] c = "9" -> 9

RECURSIVE DecimalValue(_, _)
DecimalValue(s, n) ==
    IF n = 0 THEN 0 ELSE 10 * DecimalValue(s, n - 1) + DigitValue(Char(s, n))

\* s.parse() of the page_size text: an empty string or any non-digit is an error
\* (the inputs drawn carry no sign and stay far below the integer type's range)
parse_page_size(s) ==
    IF Len(s) >= 1 /\ \A i \in 1..Len(s) : Char(s, i) \in Digits
    THEN Ok(DecimalValue(s, Len(s)))
    ELSE Err("invalid digit found in string")

\* url::Url::parse: a base URL needs a scheme
Url_parse(s) ==
    IF Len(s) > 7 /\ SubSeq(s, 1, 7) = "http://" THEN Ok(s) ELSE Err("relative URL without a base")

\* the task documents drawn for create
DocHello == "{\"executors\":[{\"image\":\"alpine\",\"command\":[\"cat\",\"/inputs/hello.txt\"]}]}"
DocNamed == "{\"name\":\"Hello world\",\"executors\":[{\"image\":\"alpine\",\"command\":[\"echo\"]}]}"
DocBroken == "{\"name\":"
DocPath == "./tests/sample.tes"
DocTexts == {DocHello, DocNamed, DocBroken, DocPath}

\* serde_json::from_str::<TesTask>(text) on the documents drawn
from_str_TesTask(text) ==
    CASE text = DocHello ->
            Ok([name |-> None,
                executors |-> <<[image |-> "alpine", command |-> <<"cat", "/inputs/hello.txt">>]>>])
      [] text = DocNamed ->
            Ok([name |-> Some("Hello world"),
                executors |-> <<[image |-> "alpine", command |-> <<"echo">>]>>])
      [] OTHER -> Err("Failed to parse JSON")

-----------------------------------------------------------------------------
(* Command-line inputs *)

Commands == {"create", "list", "get", "status", "cancel"}

TaskIdArgs == {"cqgk5lj93m0311u6p530", "t1"}

\* create: the TASK_FILE text and what the file system answers for that path:
\* exists is Path::exists, read is fs::read_to_string (None: any io error)
CreateArgs ==
    {[TASK_FILE |-> t, exists |-> FALSE, read |-> None] : t \in DocTexts}
    \cup {[TASK_FILE |-> t, exists |-> TRUE, read |-> r] :
            t \in DocTexts, r \in {None} \cup {Some(c) : c \in DocTexts}}

ListArgs ==
    [name_prefix : {None, Some("Hello")},
     state : {None, Some("\"RUNNING\""), Some("\"EXECUTOR_ERROR\""), Some("RUNNING"), Some("None")},
     tag_key : {None, Some("k")},
     tag_value : {None, Some("v")},
     page_size : {None, Some("10"), Some("0"), Some("abc"), Some("")},
     page_token : {None, Some("tok")},
     view : {None, Some("FULL")}]

ArgsOf(c) ==
    CASE c = "create" -> CreateArgs
      [] c = "list"   -> ListArgs
      [] c = "get"    -> [id : TaskIdArgs, view : {"BASIC", "FULL"}]
      [] c = "status" -> [id : TaskIdArgs]
      [] c = "cancel" -> [id : TaskIdArgs]

\* what ensure_funnel_running may hand back
FunnelUrls == {"http://localhost:8000", "localhost:8000"}

\* the responses list_tasks may hand back
BackendTasks == {[id |-> Some("t1"), state |-> Some("Running")],
                 [id |-> None, state |-> Some("ExecutorError")]}
BackendResponses == {[tasks |-> ts] : ts \in SeqsUpTo(BackendTasks, MaxTasks)}

\* what the awaited client method may hand back: any of the Ok values below, or
\* an error
BackendOks(c) ==
    CASE c = "create" -> {[id |-> i] : i \in TaskIdArgs}
      [] c = "list"   -> BackendResponses
      [] c = "get"    -> {[id |-> Some(args.id), state |-> st] : st \in ListTaskStates}
      [] c = "status" -> TesStates
      [] c = "cancel" -> {"{}"}

BackendErr == Err("backend error")

-----------------------------------------------------------------------------
(* main: helpers shared by the five branches *)

\* the client method each branch awaits: tes.create, tes.list_tasks, tes.get,
\* task.status, task.cancel
BackendCallOf_swapped(c) ==
    CASE c = "create" -> "create"
      [] c = "list"   -> "list_tasks"
      [] c = "get"    -> "get"
      [] c = "status" -> "get"
      [] c = "cancel" -> "cancel"

BackendCallOf(c) ==
    CASE c = "create" -> "create"
      [] c = "list"   -> "list_tasks"
      [] c = "get"    -> "get"
      [] c = "status" -> "status"
      [] c = "cancel" -> "cancel"

BackendOps == {BackendCallOf(c) : c \in Commands}

\* the argument each branch passes to its client method
BackendArgOf(c) ==
    CASE c = "create" -> testask[1]
      [] c = "list"   -> parameters
      [] c = "get"    -> <<args.view, args.id>>
      [] c = "status" -> args.id
      [] c = "cancel" -> args.id

Call(op, arg) == events' = Append(events, [op |-> op, arg |-> arg])

BackendCalls == SelectSeq(events, LAMBDA e : e.op \in BackendOps)

\* an `.expect(msg)` on an Err: the thread panics, the process ends with a failure status
Panic(msg) ==
    /\ stderr' = Append(stderr, "panicked: " \o msg)
    /\ outcome' = "panic"
    /\ pc' = "done"

\* `return Err(e)` from main: the runtime prints the error and exits non-zero
ReturnErr(logged) ==
    /\ stderr' = stderr \o logged \o <<"Error: returned from main">>
    /\ outcome' = "err"
    /\ pc' = "done"

\* falling out of the match to the final `Ok(())`
ReturnOk ==
    /\ outcome' = "ok"
    /\ pc' = "done"

\* {:?} of a value whose type the library defines
Debug(v) == [debug |-> v]

\* {:?} of a TesState: the variant's identifier
DebugTesState(state) == state

-----------------------------------------------------------------------------
(* main: create *)

\* if the file content is no task document, try the argument text instead
ReadTaskJson_fallback(a) ==
    IF a.read # None /\ from_str_TesTask(a.read[1]).ok THEN a.read[1] ELSE a.TASK_FILE

\* `match fs::read_to_string(path) { Ok(contents) => contents, Err(e) => task_file.to_string() }`
ReadTaskJson(a) ==
    IF a.read # None THEN a.read[1] ELSE a.TASK_FILE

\* lines 172-189: read, parse, then the call of ensure_funnel_running
CreateStart ==
    /\ pc = "start" /\ cmd = "create"
    /\ LET json == ReadTaskJson(args)
           logged == (IF ~args.exists THEN <<"File does not exist">> ELSE <<>>)
                     \o (IF args.read = None THEN <<"Failed to read file">> ELSE <<>>)
           parsed == from_str_TesTask(json)
       IN  /\ task_json' = Some(json)
           /\ IF parsed.ok
              THEN /\ testask' = Some(unwrap(parsed))
                   /\ stderr' = stderr \o logged
                   /\ Call("ensure_funnel_running", None)
                   /\ pc' = "resolving"
                   /\ UNCHANGED outcome
              ELSE /\ ReturnErr(logged)
                   /\ UNCHANGED <<testask, events>>
    /\ UNCHANGED <<cmd, args, parameters, funnel_url, tes_new, result, stdout, fmtVars>>

-----------------------------------------------------------------------------
(* main: list *)

\* `.map(|s| serde_json::from_str(s).expect("Invalid state"))`, the expect passed
MapState(opt) == IF opt = None THEN None ELSE Some(unwrap(from_str_TesState(opt[1])))

\* `.map(|s| s.parse().expect("Invalid page_size"))`, the expect passed
MapPageSize(opt) == IF opt = None THEN None ELSE Some(unwrap(parse_page_size(opt[1])))

\* a struct literal that wires the tag filters through
ListTasksParams_tags(a) ==
    [name_prefix |-> a.name_prefix,
     state       |-> MapState(a.state),
     tag_key     |-> a.tag_key,
     tag_value   |-> a.tag_value,
     page_size   |-> MapPageSize(a.page_size),
     page_token  |-> a.page_token,
     view        |-> a.view]

\* lines 205-221, once both expects have passed
ListTasksParams(a) ==
    [name_prefix |-> a.name_prefix,
     state       |-> MapState(a.state),
     tag_key     |-> None,
     tag_value   |-> None,
     page_size   |-> MapPageSize(a.page_size),
     page_token  |-> a.page_token,
     view        |-> a.view]

\* lines 204-226: the two expects in source order, the struct, then the call of
\* ensure_funnel_running
ListStart ==
    /\ pc = "start" /\ cmd = "list"
    /\ IF args.state # None /\ ~from_str_TesState(args.state[1]).ok
       THEN /\ Panic("Invalid state")
            /\ UNCHANGED <<parameters, events>>
       ELSE IF args.page_size # None /\ ~parse_page_size(args.page_size[1]).ok
       THEN /\ Panic("Invalid page_size")
            /\ UNCHANGED <<parameters, events>>
       ELSE /\ parameters' = Some(ListTasksParams(args))
            /\ Call("ensure_funnel_running", None)
            /\ pc' = "resolving"
            /\ UNCHANGED <<stderr, outcome>>
    /\ UNCHANGED <<cmd, args, task_json, testask, funnel_url, tes_new, result, stdout, fmtVars>>

-----------------------------------------------------------------------------
(* main: get, status, cancel up to the call of ensure_funnel_running *)

\* lines 248-253
GetStart ==
    /\ pc = "start" /\ cmd = "get"
    /\ Call("ensure_funnel_running", None)
    /\ pc' = "resolving"
    /\ UNCHANGED <<cmd, args, task_json, testask, parameters, funnel_url, tes_new, result,
                   stdout, stderr, outcome, fmtVars>>

\* lines 268-272
StatusStart ==
    /\ pc = "start" /\ cmd = "status"
    /\ Call("ensure_funnel_running", None)
    /\ pc' = "resolving"
    /\ UNCHANGED <<cmd, args, task_json, testask, parameters, funnel_url, tes_new, result,
                   stdout, stderr, outcome, fmtVars>>

\* lines 289-293
CancelStart ==
    /\ pc = "start" /\ cmd = "cancel"
    /\ Call("ensure_funnel_running", None)
    /\ pc' = "resolving"
    /\ UNCHANGED <<cmd, args, task_json, testask, parameters, funnel_url, tes_new, result,
                   stdout, stderr, outcome, fmtVars>>

-----------------------------------------------------------------------------
(* main: from the endpoint to the backend call *)

\* create, list, get: ensure_funnel_running returns, the URL is parsed, and
\* TES::new(&config) is awaited
TesResolveReturn ==
    /\ pc = "resolving" /\ cmd \in {"create", "list", "get"}
    /\ \E url \in FunnelUrls :
        /\ funnel_url' = Some(url)
        /\ IF Url_parse(url).ok
           THEN /\ pc' = "tes_new"
                /\ UNCHANGED <<stderr, outcome>>
           ELSE Panic("Invalid URL")
    /\ UNCHANGED <<cmd, args, task_json, testask, parameters, tes_new, events, result,
                   stdout, fmtVars>>

\* status, cancel: ensure_funnel_running returns, the URL is parsed,
\* Transport::new and Task::new build the handle, and the task method is awaited
TaskResolveReturn ==
    /\ pc = "resolving" /\ cmd \in {"status", "cancel"}
    /\ \E url \in FunnelUrls :
        /\ funnel_url' = Some(url)
        /\ IF Url_parse(url).ok
           THEN /\ tes_new' = "Transport"
                /\ Call(BackendCallOf(cmd), BackendArgOf(cmd))
                /\ pc' = "calling"
                /\ UNCHANGED <<stderr, outcome>>
           ELSE /\ Panic("Invalid URL")
                /\ UNCHANGED <<tes_new, events>>
    /\ UNCHANGED <<cmd, args, task_json, testask, parameters, result, stdout, fmtVars>>

\* a branch that goes on to the backend call whatever TES::new returned
TesNewReturn_unchecked ==
    /\ pc = "tes_new"
    /\ \E r \in {"Ok", "Err"} :
        /\ tes_new' = r
        /\ Call(BackendCallOf(cmd), BackendArgOf(cmd))
        /\ pc' = "calling"
        /\ UNCHANGED <<stderr, outcome>>
    /\ UNCHANGED <<cmd, args, task_json, testask, parameters, funnel_url, result, stdout,
                   fmtVars>>

\* `match TES::new(&config).await`: Ok goes on to the backend call, Err is
\* logged and returned
TesNewReturn ==
    /\ pc = "tes_new"
    /\ \E r \in {"Ok", "Err"} :
        /\ tes_new' = r
        /\ IF r = "Ok"
           THEN /\ Call(BackendCallOf(cmd), BackendArgOf(cmd))
                /\ pc' = "calling"
                /\ UNCHANGED <<stderr, outcome>>
           ELSE /\ ReturnErr(<<"Error creating TES instance">>)
                /\ UNCHANGED events
    /\ UNCHANGED <<cmd, args, task_json, testask, parameters, funnel_url, result, stdout,
                   fmtVars>>

-----------------------------------------------------------------------------
(* main: the backend call returns *)

\* lines 194-195: the Result is printed with {:?}, Ok or Err alike
CreateBackendReturn ==
    /\ pc = "calling" /\ cmd = "create"
    /\ \E failed \in BOOLEAN, okv \in BackendOks(cmd) :
        LET r == IF failed THEN BackendErr ELSE Ok(okv) IN
        /\ result' = Some(r)
        /\ stdout' = Append(stdout, Debug(r))
    /\ ReturnOk
    /\ UNCHANGED <<cmd, args, task_json, testask, parameters, funnel_url, tes_new, events,
                   stderr, fmtVars>>

\* lines 232-239: Ok prints the table, Err is written with eprintln!
ListBackendReturn ==
    /\ pc = "calling" /\ cmd = "list"
    /\ \E failed \in BOOLEAN, okv \in BackendOks(cmd) :
        LET r == IF failed THEN BackendErr ELSE Ok(okv) IN
        /\ result' = Some(r)
        /\ IF r.ok
           THEN /\ stdout' = Append(stdout, format_tasks_response(unwrap(r)))
                /\ UNCHANGED stderr
           ELSE /\ stderr' = Append(stderr, "Error listing tasks: " \o r.e)
                /\ UNCHANGED stdout
    /\ ReturnOk
    /\ UNCHANGED <<cmd, args, task_json, testask, parameters, funnel_url, tes_new, events,
                   fmtVars>>

\* lines 258-259: the Result is printed with {:?}, Ok or Err alike
GetBackendReturn ==
    /\ pc = "calling" /\ cmd = "get"
    /\ \E failed \in BOOLEAN, okv \in BackendOks(cmd) :
        LET r == IF failed THEN BackendErr ELSE Ok(okv) IN
        /\ result' = Some(r)
        /\ stdout' = Append(stdout, Debug(r))
    /\ ReturnOk
    /\ UNCHANGED <<cmd, args, task_json, testask, parameters, funnel_url, tes_new, events,
                   stderr, fmtVars>>

\* lines 277-286
StatusBackendReturn ==
    /\ pc = "calling" /\ cmd = "status"
    /\ \E failed \in BOOLEAN, okv \in BackendOks(cmd) :
        LET r == IF failed THEN BackendErr ELSE Ok(okv) IN
        /\ result' = Some(r)
        /\ IF r.ok
           THEN /\ stdout' = stdout \o <<"TASKID: " \o args.id,
                                         "STATUS: " \o DebugTesState(unwrap(r))>>
                /\ ReturnOk
                /\ UNCHANGED stderr
           ELSE /\ ReturnErr(<<"Error creating Task instance">>)
                /\ UNCHANGED stdout
    /\ UNCHANGED <<cmd, args, task_json, testask, parameters, funnel_url, tes_new, events,
                   fmtVars>>

\* a branch that starts over when the backend call fails
CancelBackendReturn_again ==
    /\ pc = "calling" /\ cmd = "cancel"
    /\ \E failed \in BOOLEAN, okv \in BackendOks(cmd) :
        LET r == IF failed THEN BackendErr ELSE Ok(okv) IN
        /\ result' = Some(r)
        /\ IF r.ok
           THEN /\ stdout' = Append(stdout, Debug(unwrap(r)))
                /\ ReturnOk
                /\ UNCHANGED <<stderr, events>>
           ELSE /\ events' = SubSeq(events, 1, 1)
                /\ pc' = "resolving"
                /\ UNCHANGED <<stdout, stderr, outcome>>
    /\ UNCHANGED <<cmd, args, task_json, testask, parameters, funnel_url, tes_new, fmtVars>>

\* lines 298-306
CancelBackendReturn ==
    /\ pc = "calling" /\ cmd = "cancel"
    /\ \E failed \in BOOLEAN, okv \in BackendOks(cmd) :
        LET r == IF failed THEN BackendErr ELSE Ok(okv) IN
        /\ result' = Some(r)
        /\ IF r.ok
           THEN /\ stdout' = Append(stdout, Debug(unwrap(r)))
                /\ ReturnOk
                /\ UNCHANGED stderr
           ELSE /\ ReturnErr(<<"Error creating Task instance">>)
                /\ UNCHANGED stdout
    /\ UNCHANGED <<cmd, args, task_json, testask, parameters, funnel_url, tes_new, events,
                   fmtVars>>

-----------------------------------------------------------------------------
(* The invocation as a state machine *)

FmtIdle ==
    /\ fin = [kind |-> "none", s1 |-> None, s2 |-> None, task |-> NoTask, tasks |-> <<>>]
    /\ fpc = "idle"
    /\ fout = ""

\* clap has matched `tes <subcommand>` and its values (subcommand_required and
\* the required arguments make every other command line exit inside get_matches)
Init ==
    /\ cmd \in Commands
    /\ args \in ArgsOf(cmd)
    /\ pc = "start"
    /\ task_json = None
    /\ testask = None
    /\ parameters = None
    /\ funnel_url = None
    /\ tes_new = "none"
    /\ events = <<>>
    /\ result = None
    /\ stdout = <<>>
    /\ stderr = <<>>
    /\ outcome = "none"
    /\ FmtIdle

Next ==
    \/ CreateStart
    \/ ListStart
    \/ GetStart
    \/ StatusStart
    \/ CancelStart
    \/ TesResolveReturn
    \/ TaskResolveReturn
    \/ TesNewReturn
    \/ CreateBackendReturn
    \/ ListBackendReturn
    \/ GetBackendReturn
    \/ StatusBackendReturn
    \/ CancelBackendReturn

Spec == Init /\ [][Next]_vars

\* every await main is suspended at is eventually resumed: the endpoint
\* resolver, TES::new and the backend call each return
FairSpec == Spec /\ WF_vars(Next)

-----------------------------------------------------------------------------
(* The pure functions applied to drawn inputs *)

ApplyStateToStr ==
    /\ fpc = "ready" /\ fin.kind = "state"
    /\ fout' = <<tes_state_to_str(fin.s1), tes_state_to_str(fin.s2)>>
    /\ fpc' = "done"
    /\ UNCHANGED <<fin, mainVars>>

ApplyFormatTask ==
    /\ fpc = "ready" /\ fin.kind = "task"
    /\ fout' = format_task(fin.task)
    /\ fpc' = "done"
    /\ UNCHANGED <<fin, mainVars>>

ApplyFormatTasksResponse ==
    /\ fpc = "ready" /\ fin.kind = "list"
    /\ fout' = format_tasks_response([tasks |-> fin.tasks])
    /\ fpc' = "done"
    /\ UNCHANGED <<fin, mainVars>>

FormatInit ==
    /\ fin \in FormatInputs
    /\ fpc = "ready"
    /\ fout = ""
    /\ cmd = "status"
    /\ args = [id |-> "t1"]
    /\ pc = "idle"
    /\ task_json = None
    /\ testask = None
    /\ parameters = None
    /\ funnel_url = None
    /\ tes_new = "none"
    /\ events = <<>>
    /\ result = None
    /\ stdout = <<>>
    /\ stderr = <<>>
    /\ outcome = "none"

FormatNext ==
    \/ ApplyStateToStr
    \/ ApplyFormatTask
    \/ ApplyFormatTasksResponse

FormatSpec == FormatInit /\ [][FormatNext]_vars

-----------------------------------------------------------------------------
(* Properties of the dispatcher, checked under Spec *)

Finished == pc = "done"
Failed == outcome \in {"err", "panic"}
BackendFailed == result # None /\ ~result[1].ok
BackendSucceeded == result # None /\ result[1].ok

\* C1: whenever the backend call of create, list, get, status or cancel returns
\* an error, the invocation ends in the failure outcome, never in success
BackendErrorIsFatal ==
    (Finished /\ BackendFailed) => Failed

\* the document create selects: the file's content when the file can be read,
\* else the argument text
SelectedDocument ==
    IF args.read # None THEN args.read[1] ELSE args.TASK_FILE

\* every pre-step of the invoked operation has succeeded
PreStepsOk ==
    /\ cmd = "create" => testask # None
    /\ cmd = "list" =>
        /\ parameters # None
        /\ args.state # None => from_str_TesState(args.state[1]).ok
        /\ args.page_size # None => parse_page_size(args.page_size[1]).ok
    /\ funnel_url # None /\ Url_parse(funnel_url[1]).ok
    /\ tes_new \in {"Ok", "Transport"}

\* some pre-step of the invoked operation has failed
PreStepFailed ==
    \/ cmd = "create" /\ ~from_str_TesTask(SelectedDocument).ok
    \/ cmd = "list" /\ args.state # None /\ ~from_str_TesState(args.state[1]).ok
    \/ cmd = "list" /\ args.page_size # None /\ ~parse_page_size(args.page_size[1]).ok
    \/ funnel_url # None /\ ~Url_parse(funnel_url[1]).ok
    \/ tes_new = "Err"

\* C2: a backend call has been issued only if the document (create) and the
\* state and page_size inputs (list) parsed, the endpoint was resolved and the
\* handle was constructed; when a pre-step fails no backend call is ever made
\* and the invocation ends in failure
BackendCallOnlyAfterPreSteps ==
    /\ BackendCalls # <<>> => PreStepsOk
    /\ PreStepFailed => BackendCalls = <<>>
    /\ (PreStepFailed /\ Finished) => Failed

\* list with page_size "abc" has ended: a panic, and nothing was asked of the backend
PageSizeAbcEndsWithoutCall ==
    /\ cmd = "list" /\ args.page_size = Some("abc")
    /\ Finished /\ outcome = "panic"
    /\ BackendCalls = <<>>

\* C3: at most one endpoint resolution and at most one backend call, the
\* resolution first, the call the one of the invoked command, and no second
\* call after a failed one
OneResolutionThenOneCall ==
    LET expected == CASE cmd = "create" -> "create"
                      [] cmd = "list"   -> "list_tasks"
                      [] cmd = "get"    -> "get"
                      [] cmd = "status" -> "status"
                      [] cmd = "cancel" -> "cancel"
    IN  \/ events = <<>>
        \/ /\ Len(events) = 1
           /\ events[1].op = "ensure_funnel_running"
        \/ /\ Len(events) = 2
           /\ events[1].op = "ensure_funnel_running"
           /\ events[2].op = expected

\* a status call failed and the invocation ended with that one call
FailedStatusCallNotRetried ==
    /\ cmd = "status" /\ Finished /\ BackendFailed
    /\ Len(events) = 2 /\ events[2].op = "status"

\* C4: on a successful status call for task id X the output is X together
\* with the label tes_state_to_str gives the returned state
StatusPrintsStateLabel ==
    (cmd = "status" /\ Finished /\ BackendSucceeded) =>
        stdout = <<"TASKID: " \o args.id,
                   "STATUS: " \o tes_state_to_str(Some(unwrap(result[1])))>>

RECURSIVE ToDecimal(_)
ToDecimal(n) ==
    LET d == CHOOSE c \in Digits : DigitValue(c) = n % 10
    IN  IF n < 10 THEN d ELSE ToDecimal(n \div 10) \o d

CreateParsesSelectedDocument ==
    (cmd = "create" /\ pc \notin {"start", "idle"}) =>
        LET parsed == from_str_TesTask(SelectedDocument) IN
        /\ task_json = Some(SelectedDocument)
        /\ parsed.ok =>
            /\ testask = Some(unwrap(parsed))
            /\ \A i \in 1..Len(BackendCalls) : BackendCalls[i].arg = unwrap(parsed)
        /\ ~parsed.ok =>
            /\ testask = None
            /\ events = <<>>
            /\ Finished /\ outcome = "err"

\* the file could not be read and the argument text itself was submitted
ArgumentTextSubmitted ==
    /\ cmd = "create" /\ args.read = None
    /\ Len(BackendCalls) = 1
    /\ BackendCalls[1].arg = unwrap(from_str_TesTask(args.TASK_FILE))

-----------------------------------------------------------------------------
(* Termination, checked under FairSpec *)

\* a step main takes on its own, without an answer from a collaborator
LocalStep == CreateStart \/ ListStart \/ GetStart \/ StatusStart \/ CancelStart

\* C10 as stated: main waits nowhere but at the endpoint resolution and at the
\* backend call
WaitsOnlyForEndpointAndBackend ==
    pc \notin {"resolving", "calling"} => (Finished \/ ENABLED LocalStep)

\* C10, with the third await: when the endpoint resolver, TES::new and the
\* backend call each return, every invocation ends in exactly one outcome,
\* which then stays; main waits nowhere but at those three awaits
EndsInOneOutcome ==
    /\ <>(Finished /\ outcome \in {"ok", "err", "panic"})
    /\ [][outcome # "none" => outcome' = outcome]_vars
    /\ [](~Finished => outcome = "none")
    /\ [](pc \notin {"resolving", "tes_new", "calling"} => (Finished \/ ENABLED LocalStep))

\* an invocation that went through all three awaits and ended in success
EndedAfterThreeAwaits ==
    Finished /\ outcome = "ok" /\ tes_new = "Ok" /\ result # None

-----------------------------------------------------------------------------
(* Properties of the pure functions, checked under FormatSpec *)

\* C5: every one of the 11 states and the absent state has a label, no two of
\* the 12 inputs share one, and the absent state's label is "None"
StateLabelsDistinct ==
    (fpc = "done" /\ fin.kind = "state") =>
        /\ Len(fout[1]) > 0
        /\ fout[1] = fout[2] => fin.s1 = fin.s2
        /\ fin.s1 = None <=> fout[1] = "None"

\* the labels of Canceling and Canceled have both been produced
CancelingAndCanceledLabelled ==
    /\ fpc = "done" /\ fin.kind = "state"
    /\ fin.s1 = Some("Canceling") /\ fin.s2 = Some("Canceled")

\* the header row, written out
HeaderRow == "TASK ID                   State          \n"

\* where row i of the table ends (row 0 is the header)
RECURSIVE RowEnd(_, _)
RowEnd(tasks, i) ==
    IF i = 0 THEN Len(HeaderRow) ELSE RowEnd(tasks, i - 1) + Len(format_task(tasks[i]))

\* C6: for n tasks the table is the header row followed by the n rows
\* format_task gives, in the received order, each ended by a newline, and
\* nothing else; for no task it is the header row alone
TableIsHeaderThenRows ==
    (fpc = "done" /\ fin.kind = "list") =>
        LET tasks == fin.tasks
            n == Len(tasks)
        IN  /\ Len(fout) = RowEnd(tasks, n)
            /\ SubSeq(fout, 1, Len(HeaderRow)) = HeaderRow
            /\ \A i \in 1..n :
                /\ SubSeq(fout, RowEnd(tasks, i - 1) + 1, RowEnd(tasks, i)) = format_task(tasks[i])
                /\ Char(fout, RowEnd(tasks, i)) = "\n"
            /\ n = 0 => fout = HeaderRow

\* a table of at least two different tasks has been rendered
TableOfSeveralTasks ==
    /\ fpc = "done" /\ fin.kind = "list"
    /\ Len(fin.tasks) >= 2 /\ fin.tasks[1] # fin.tasks[2]

\* C9: the line is the identifier (or "None") in full, spaces up to column 25,
\* one space, the label, spaces up to 15 columns, a newline: 42 characters for
\* every identifier of at most 25 characters, and longer by the excess beyond
\* 25 otherwise
LineWidthFixedNoTruncation ==
    (fpc = "done" /\ fin.kind = "task") =>
        LET id == IF fin.task.id = None THEN "None" ELSE fin.task.id[1]
            label == tes_state_to_str(fin.task.state)
            w == IF Len(id) > 25 THEN Len(id) ELSE 25
        IN  /\ Len(id) <= 25 => Len(fout) = 42
            /\ Len(id) > 25 => Len(fout) = 42 + (Len(id) - 25)
            /\ SubSeq(fout, 1, Len(id)) = id
            /\ SubSeq(fout, Len(id) + 1, w + 1) = Spaces(w + 1 - Len(id))
            /\ SubSeq(fout, w + 2, w + 1 + Len(label)) = label
            /\ SubSeq(fout, w + 2 + Len(label), Len(fout) - 1) = Spaces(15 - Len(label))
            /\ Char(fout, Len(fout)) = "\n"

\* a 40-character identifier has been formatted
LongestIdFormatted ==
    /\ fpc = "done" /\ fin.kind = "task"
    /\ fin.task.id # None /\ Len(fin.task.id[1]) = 40

====
